---- MODULE Spec2Model ----
(***************************************************************************)
(* Model of the Jain SMS API controller (controllers/smsController.js):    *)
(* the gateway token cache with its promise lock (getAuthToken) and the    *)
(* bulk-send handler (sendBulkSMS) with validation, grouping, batching,    *)
(* per-batch dispatch and response parsing.                                *)
(*                                                                         *)
(* JavaScript strings are TLA+ strings; a character is a string of length  *)
(* one.  A value that may be null/undefined is a sequence of length <= 1:  *)
(* << >> is null/undefined, <<v>> is the value v.                          *)
(***************************************************************************)
EXTENDS Integers, Sequences, FiniteSets, TLC

(***************************************************************************)
(* String helpers                                                          *)
(***************************************************************************)
Char(s, i) == SubSeq(s, i, i)

Digits == {"0", "1", "2", "3", "4", "5", "6", "7", "8", "9"}

DigitVal(c) ==
  CASE c = "0" -> 0 [] c = "1" -> 1 [] c = "2" -> 2 [] c = "3" -> 3
    [] c = "4" -> 4 [] c = "5" -> 5 [] c = "6" -> 6 [] c = "7" -> 7
    [] c = "8" -> 8 [] c = "9" -> 9

\* phone.replace(/\D/g, '')
RECURSIVE StripNonDigits(_)
StripNonDigits(s) ==
  IF s = "" THEN ""
  ELSE (IF Char(s, 1) \in Digits THEN Char(s, 1) ELSE "")
         \o StripNonDigits(SubSeq(s, 2, Len(s)))

AllDigits(s) == \A i \in 1..Len(s) : Char(s, i) \in Digits

\* str.startsWith(prefix)
StartsWith(s, prefix) ==
  Len(s) >= Len(prefix) /\ SubSeq(s, 1, Len(prefix)) = prefix

\* variant: the pattern is tested on the phone as written
validatePhoneNumberAsWritten(phone) ==
  /\ Len(phone) = 10
  /\ Char(phone, 1) \in {"6", "7", "8", "9"}
  /\ AllDigits(SubSeq(phone, 2, 10))

\* validatePhoneNumber: /^[6-9]\d{9}$/ on the digits of the phone
validatePhoneNumber(phone) ==
  LET cleaned == StripNonDigits(phone)
  IN  /\ Len(cleaned) = 10
      /\ Char(cleaned, 1) \in {"6", "7", "8", "9"}
      /\ AllDigits(SubSeq(cleaned, 2, 10))

\* formatPhoneWithCountryCode
formatPhoneWithCountryCode(phone) ==
  LET cleaned == StripNonDigits(phone)
  IN  IF StartsWith(cleaned, "91") THEN cleaned ELSE "91" \o cleaned

Placeholder == "{#var#}"

\* applyTemplate: template.replace(/\{\#var\#\}/g, () => String(vars[idx++] ?? ''))
RECURSIVE applyTemplateFrom(_, _, _)
applyTemplateFrom(template, vars, idx) ==
  IF template = "" THEN ""
  ELSE IF StartsWith(template, Placeholder)
       THEN (IF idx <= Len(vars) THEN vars[idx] ELSE "")
              \o applyTemplateFrom(SubSeq(template, Len(Placeholder) + 1, Len(template)),
                                   vars, idx + 1)
       ELSE Char(template, 1)
              \o applyTemplateFrom(SubSeq(template, 2, Len(template)), vars, idx)

\* variant: the values are taken from the second one on
applyTemplateFromSecond(template, vars) == applyTemplateFrom(template, vars, 2)

\* let idx = 0: the first placeholder takes vars[0]
applyTemplate(template, vars) == applyTemplateFrom(template, vars, 1)

(***************************************************************************)
(* parsePragatiResponse                                                    *)
(***************************************************************************)
\* length of the longest prefix of s without the character c
RECURSIVE RunLen(_, _)
RunLen(s, c) ==
  IF s = "" \/ Char(s, 1) = c THEN 0
  ELSE 1 + RunLen(SubSeq(s, 2, Len(s)), c)

\* text.match(/key=([^&]+)/): << >> when there is no match, else <<capture>>
RECURSIVE MatchField(_, _)
MatchField(text, key) ==
  IF Len(text) <= Len(key) THEN << >>
  ELSE LET rest == SubSeq(text, Len(key) + 1, Len(text))
       IN  IF StartsWith(text, key) /\ RunLen(rest, "&") > 0
           THEN << SubSeq(rest, 1, RunLen(rest, "&")) >>
           ELSE MatchField(SubSeq(text, 2, Len(text)), key)

\* str.split(',')
RECURSIVE Split(_, _)
Split(s, sep) ==
  LET n == RunLen(s, sep)
  IN  IF n = Len(s) THEN << s >>
      ELSE << SubSeq(s, 1, n) >> \o Split(SubSeq(s, n + 2, Len(s)), sep)

\* property names every plain object inherits from Object.prototype: for
\* such a key obj[key] is truthy before any assignment (a function or an
\* object, never a string or an array)
ProtoKeys == {"__proto__", "constructor", "toString", "valueOf",
              "hasOwnProperty", "isPrototypeOf", "propertyIsEnumerable",
              "toLocaleString", "__defineGetter__", "__defineSetter__",
              "__lookupGetter__", "__lookupSetter__"}

\* the value obj[key] of an inherited property, as it prints
Inherited(key) == "[Object.prototype." \o key \o "]"

errorMessages ==
  [c \in {"1", "2", "3", "4", "5", "6", "7", "8", "14"} |->
     CASE c = "1" -> "Invalid Receiver - Mobile number is invalid or greater than 16 digits"
       [] c = "2" -> "Invalid Sender - Wrong sender ID or greater than 16 digits"
       [] c = "3" -> "Invalid Message - Blank message or template does not match DLT template ID"
       [] c = "4" -> "Service not available - Operator or server down"
       [] c = "5" -> "Authorization failed - Wrong credentials"
       [] c = "6" -> "Contract Expired"
       [] c = "7" -> "Credit Expired - Account balance is zero"
       [] c = "8" -> "Empty Receiver - No recipient number provided"
       [] c = "14" -> "Non-compliant message - Violates TRAI guidelines or template mismatch"]

parsePragatiResponse(responseText) ==
  LET guid == MatchField(responseText, "guid=")
      errorCodesMatch == MatchField(responseText, "errorcode=")
      seqnosMatch == MatchField(responseText, "seqno=")
      errorCodesStr == IF errorCodesMatch = << >> THEN "0" ELSE errorCodesMatch[1]
      seqnos == IF seqnosMatch = << >> THEN << >> ELSE Split(seqnosMatch[1], ",")
      errorCodes == Split(errorCodesStr, ",")
  IN  [index \in 1..Len(errorCodes) |->
         LET code == errorCodes[index]
         IN  [success |-> code = "0",
              guid |-> IF code = "0" THEN guid ELSE << >>,
              errorCode |-> code,
              errorMessage |->
                IF code # "0"
                THEN (IF code \in DOMAIN errorMessages
                      THEN << errorMessages[code] >>
                      ELSE IF code \in ProtoKeys
                      THEN << Inherited(code) >>
                      ELSE << "Unknown error code: " \o code >>)
                ELSE << >>,
              seqno |-> IF index <= Len(seqnos) /\ seqnos[index] # ""
                        THEN << seqnos[index] >> ELSE << >>]]

(***************************************************************************)
(* Grouping and batching (sendBulkSMS, lines 265-292)                      *)
(***************************************************************************)
BatchCap == 100
MaxRecipients == 1000

\* recipient.message || (template ? applyTemplate(template, recipient.templateVars || []) : '')
messageTextOf(recipient, template) ==
  IF recipient.message # "" THEN recipient.message
  ELSE IF template # "" THEN applyTemplate(template, recipient.templateVars)
  ELSE ""

\* lexicographic a <= b on digit strings of equal length
RECURSIVE DigitsLeq(_, _)
DigitsLeq(a, b) ==
  IF a = "" THEN TRUE
  ELSE IF DigitVal(Char(a, 1)) < DigitVal(Char(b, 1)) THEN TRUE
  ELSE IF DigitVal(Char(a, 1)) > DigitVal(Char(b, 1)) THEN FALSE
  ELSE DigitsLeq(SubSeq(a, 2, Len(a)), SubSeq(b, 2, Len(b)))

\* a property key that is a canonical array index (0 .. 2^32 - 2)
IsArrayIndex(k) ==
  /\ k # ""
  /\ AllDigits(k)
  /\ (k = "0" \/ Char(k, 1) # "0")
  /\ (Len(k) < 10 \/ (Len(k) = 10 /\ DigitsLeq(k, "4294967294")))

\* numeric a < b for canonical array indices
IndexLess(a, b) ==
  \/ Len(a) < Len(b)
  \/ Len(a) = Len(b) /\ a # b /\ DigitsLeq(a, b)

\* the distinct message texts in order of first occurrence
InsertionKeys(texts) ==
  LET firsts == SelectSeq([i \in 1..Len(texts) |-> i],
                          LAMBDA i : \A j \in 1..(i - 1) : texts[j] # texts[i])
  IN  [k \in 1..Len(firsts) |-> texts[firsts[k]]]

RECURSIVE InsertSorted(_, _)
InsertSorted(k, sorted) ==
  IF sorted = << >> THEN << k >>
  ELSE IF IndexLess(k, sorted[1]) THEN << k >> \o sorted
  ELSE << sorted[1] >> \o InsertSorted(k, Tail(sorted))

RECURSIVE SortIndices(_)
SortIndices(keys) ==
  IF keys = << >> THEN << >>
  ELSE InsertSorted(keys[1], SortIndices(Tail(keys)))

\* Object.entries key order: array indices ascending, then the other
\* string keys in insertion order
EntriesOrder(keys) ==
  SortIndices(SelectSeq(keys, IsArrayIndex))
    \o SelectSeq(keys, LAMBDA k : ~IsArrayIndex(k))

\* variant: every group is pushed whole
fitsOneBatchAlways(group) == TRUE

\* line 281: group.length <= 100
fitsOneBatch(group) == Len(group) <= BatchCap

\* group.slice(i, i + 100) for i = 0, 100, ...
RECURSIVE Chunks(_)
Chunks(group) ==
  IF fitsOneBatch(group) THEN << group >>
  ELSE << SubSeq(group, 1, BatchCap) >>
         \o Chunks(SubSeq(group, BatchCap + 1, Len(group)))

\* TRUE when groupedByMessage[messageText].push throws a TypeError
groupingThrows(recipients, template) ==
  \E i \in 1..Len(recipients) : messageTextOf(recipients[i], template) \in ProtoKeys

RECURSIVE BatchesOfKeys(_, _, _)
BatchesOfKeys(keys, recipients, template) ==
  IF keys = << >> THEN << >>
  ELSE LET group == SelectSeq(recipients,
                      LAMBDA rc : messageTextOf(rc, template) = keys[1])
           chunks == Chunks(group)
       IN  [i \in 1..Len(chunks) |->
              [messageText |-> keys[1], recipients |-> chunks[i]]]
             \o BatchesOfKeys(Tail(keys), recipients, template)

makeBatches(recipients, template) ==
  LET texts == [i \in 1..Len(recipients) |-> messageTextOf(recipients[i], template)]
  IN  BatchesOfKeys(EntriesOrder(InsertionKeys(texts)), recipients, template)

(***************************************************************************)
(* The token cache file (.token-cache.json)                                *)
(*                                                                         *)
(* The file is << >> when it does not exist, else << f >> with f.readable  *)
(* telling whether readFileSync succeeds and f.text its content.  A token  *)
(* the gateway issues is the string "T" followed by a number; in           *)
(* cachedToken it is kept as << number >>.                                 *)
(***************************************************************************)
File(text) == [readable |-> TRUE, text |-> text]
Unreadable == [readable |-> FALSE, text |-> ""]

\* { token: null, expiry: 0 }
NoToken == [token |-> << >>, expiry |-> 0]

\* the value null
Null == [null |-> TRUE]

\* a number, string or boolean v read from the file: every property of
\* it is undefined
Primitive(v) == [token |-> << >>, expiry |-> 0, primitive |-> v]

\* the value of a string of digits
RECURSIVE ParseNat(_)
ParseNat(s) ==
  IF s = "" THEN 0
  ELSE 10 * ParseNat(SubSeq(s, 1, Len(s) - 1)) + DigitVal(Char(s, Len(s)))

TokenOpen == "{\n  \"token\": \"T"
ExpiryOpen == "\",\n  \"expiry\": "
RecordClose == "\n}"

\* JSON.stringify(token, null, 2) of a record { token, expiry }
JSONstringify(c) ==
  TokenOpen \o ToString(c.token[1]) \o ExpiryOpen \o ToString(c.expiry) \o RecordClose

\* JSON.parse(data) for the texts the model puts in the file: null, a
\* number, a record as JSONstringify writes it; any other text throws
\* a SyntaxError (ok is FALSE)
JSONparse(data) ==
  IF data = "null" THEN [ok |-> TRUE, value |-> Null]
  ELSE IF data # "" /\ AllDigits(data) THEN [ok |-> TRUE, value |-> Primitive(data)]
  ELSE IF ~StartsWith(data, TokenOpen) THEN [ok |-> FALSE, value |-> NoToken]
  ELSE LET afterToken == SubSeq(data, Len(TokenOpen) + 1, Len(data))
           tokenDigits == SubSeq(afterToken, 1, RunLen(afterToken, "\""))
           afterDigits == SubSeq(afterToken, Len(tokenDigits) + 1, Len(afterToken))
           afterExpiry == SubSeq(afterDigits, Len(ExpiryOpen) + 1, Len(afterDigits))
           expiryDigits == SubSeq(afterExpiry, 1, RunLen(afterExpiry, "\n"))
       IN  IF /\ tokenDigits # "" /\ AllDigits(tokenDigits)
              /\ StartsWith(afterDigits, ExpiryOpen)
              /\ expiryDigits # "" /\ AllDigits(expiryDigits)
              /\ afterExpiry = expiryDigits \o RecordClose
           THEN [ok |-> TRUE,
                 value |-> [token |-> << ParseNat(tokenDigits) >>,
                            expiry |-> ParseNat(expiryDigits)]]
           ELSE [ok |-> FALSE, value |-> NoToken]

\* variant: the file is never used, every start is a fresh one
loadTokenFromDiskFresh(d) == NoToken

\* loadTokenFromDisk: whatever JSON.parse returns is the cached token;
\* the fallback serves a missing file and a read or parse exception
loadTokenFromDisk(d) ==
  IF d = << >> \/ ~d[1].readable \/ ~JSONparse(d[1].text).ok
  THEN NoToken
  ELSE JSONparse(d[1].text).value

\* the file after saveTokenToDisk(token) has written it
savedFile(c) == << File(JSONstringify(c)) >>

(***************************************************************************)
(* Bounds and sampled inputs                                               *)
(***************************************************************************)
NumReqs == 2           \* concurrent HTTP requests, each served once
MaxTime == 2           \* the clock runs over 0 .. MaxTime days
MaxRestarts == 1       \* restarts of the process

CacheDays == 6         \* a refreshed token is cached for 6 days

Reqs == 1..NumReqs

Rcp(phone, message, vars) ==
  [phone |-> phone, message |-> message, templateVars |-> vars]

Body(recipients, template, templateid) ==
  [recipients |-> recipients, template |-> template, templateid |-> templateid]

GoodPhone == "9876543210"
OtherPhone == "70000-00001"

\* the request bodies of the concurrent scenario: two recipients with
\* different texts (two batches of one)
PlainBodies ==
  { Body(<< <<Rcp(GoodPhone, "hello", << >>), Rcp(OtherPhone, "bye", << >>)>> >>,
         "", "T1") }

\* process.env: which of the settings are present
Envs ==
  { [baseUrl |-> TRUE, apiKey |-> TRUE, senderId |-> TRUE],
    [baseUrl |-> TRUE, apiKey |-> FALSE, senderId |-> TRUE],
    [baseUrl |-> TRUE, apiKey |-> TRUE, senderId |-> FALSE],
    [baseUrl |-> FALSE, apiKey |-> TRUE, senderId |-> TRUE] }

\* .token-cache.json at startup: no file, or the record saved by an
\* earlier process (token 1, valid for one more day)
Disks == { << >>, savedFile([token |-> <<1>>, expiry |-> 1]) }

\* outcomes of the token generate call
GenOutcomes == {"token", "notoken", "http", "throw"}
\* outcomes of the token enable call
EnableOutcomes == {"ok", "http", "throw"}
\* outcomes of a send call
OkOutcome == [throws |-> FALSE, ok |-> TRUE, status |-> "200",
              text |-> "guid=G1&errorcode=0&seqno=911"]
ThrowOutcome == [throws |-> TRUE, ok |-> FALSE, status |-> "", text |-> "fetch failed"]
PlainOutcomes == {OkOutcome}

\* a body of POST /send-single
Single(phone, message) == [phone |-> phone, message |-> message]
PlainSingles == { Single(GoodPhone, "hello") }

\* the scenario of the concurrency properties: every request is plain
PlainScenario ==
  [r \in Reqs |-> [bodies |-> PlainBodies, singles |-> PlainSingles,
                   outcomes |-> PlainOutcomes]]

\* a one-recipient request
SingleBodies == { Body(<< <<Rcp(GoodPhone, "hello", << >>)>> >>, "", "T1") }

\* three batches: "x" with two members, "y" with one, the template with one
RichBodies ==
  { Body(<< <<Rcp(GoodPhone, "x", << >>), Rcp(OtherPhone, "y", << >>),
              Rcp("9000000002", "x", << >>), Rcp("8000000003", "", <<"Sam">>)>> >>,
         "Hi {#var#}", "T1") }


RichOutcomes ==
  { [throws |-> FALSE, ok |-> TRUE, status |-> "200",
     text |-> "guid=G1&errorcode=0,7&seqno=911,912"],
    [throws |-> FALSE, ok |-> FALSE, status |-> "500", text |-> "down"],
    ThrowOutcome }

\* short rejected shapes: no list, an empty list, a bad first phone
RejectedBodies ==
  { Body(<< >>, "", "T1"),
    Body(<< << >> >>, "", "T1"),
    Body(<< <<Rcp("5876543210", "hello", << >>)>> >>, "", "T1") }

\* the scenario of the batch properties: request 1 has several batches and
\* the gateway may fail each of them (or it comes in by the single route),
\* request 2 has one recipient, the others are rejected
BatchScenario ==
  [r \in Reqs |-> IF r = 1 THEN [bodies |-> RichBodies, singles |-> PlainSingles,
                                 outcomes |-> RichOutcomes]
                  ELSE IF r = 2 THEN [bodies |-> SingleBodies, singles |-> {},
                                      outcomes |-> PlainOutcomes]
                  ELSE [bodies |-> RejectedBodies, singles |-> {},
                        outcomes |-> PlainOutcomes]]

ValidList(n) == [i \in 1..n |-> Rcp(GoodPhone, "hello", << >>)]

\* the shapes the validation tells apart: those above, a list of 1000 and
\* of 1001, a bad later phone, a missing phone, a recipient without text
\* (with and without a template)
LimitBodies ==
  RejectedBodies \cup
  { Body(<< ValidList(MaxRecipients) >>, "", "T1"),
    Body(<< ValidList(MaxRecipients + 1) >>, "", "T1"),
    Body(<< <<Rcp(GoodPhone, "hello", << >>), Rcp("98765", "hello", << >>)>> >>, "", "T1"),
    Body(<< <<Rcp("", "hello", << >>)>> >>, "", "T1"),
    Body(<< <<Rcp(GoodPhone, "hello", << >>), Rcp(OtherPhone, "", << >>)>> >>, "", "T1"),
    Body(<< <<Rcp(GoodPhone, "hello", << >>), Rcp(OtherPhone, "", << >>)>> >>, "Hi", "T1") }

\* two batches: the texts are words, or the second text is a number, or
\* both are numbers
NumberedBodies ==
  { Body(<< <<Rcp(GoodPhone, "b", << >>), Rcp(OtherPhone, t, << >>)>> >>,
         "", "T1") : t \in {"a", "7"} }
  \cup { Body(<< <<Rcp(GoodPhone, "10", << >>), Rcp(OtherPhone, "9", << >>)>> >>,
              "", "T1") }

\* the scenario of the ordering properties: request 1 has two batches,
\* request 2 has one recipient or comes in by the single route, the
\* others are rejected
OrderScenario ==
  [r \in Reqs |-> IF r = 1 THEN [bodies |-> NumberedBodies, singles |-> {},
                                 outcomes |-> PlainOutcomes]
                  ELSE IF r = 2 THEN [bodies |-> SingleBodies, singles |-> PlainSingles,
                                      outcomes |-> PlainOutcomes]
                  ELSE [bodies |-> RejectedBodies, singles |-> {},
                        outcomes |-> PlainOutcomes]]

\* the shapes sendSingleSMS tells apart: accepted, no phone, no message,
\* a bad phone
LimitSingles ==
  { Single(GoodPhone, "hello"), Single("", "hello"), Single(GoodPhone, ""),
    Single("98765", "hello") }

\* the scenario of the validation properties: request 1 sends one of the
\* shapes above, request 2 has one recipient, the others are rejected
LimitScenario ==
  [r \in Reqs |-> IF r = 1 THEN [bodies |-> LimitBodies, singles |-> LimitSingles,
                                 outcomes |-> PlainOutcomes]
                  ELSE IF r = 2 THEN [bodies |-> SingleBodies, singles |-> {},
                                      outcomes |-> PlainOutcomes]
                  ELSE [bodies |-> RejectedBodies, singles |-> {},
                        outcomes |-> PlainOutcomes]]

(***************************************************************************)
(* State                                                                   *)
(***************************************************************************)
VARIABLES
  env,                  \* process.env
  now,                  \* Date.now(), in days
  disk,                 \* contents of the token cache file
  diskWrites,           \* number of successful writes of the file
  cachedToken,          \* [token, expiry]
  tokenRefreshPromise,  \* << >> or <<p>>, p the request that created it
  refresh,              \* p -> the async refresh closure created by p
  micro,                \* the microtask queue
  issued,               \* tokens the gateway has issued so far
  handedOld,            \* tokens the gateway received as old_token
  pc,                   \* r -> position of request r in sendBulkSMS
  route,                \* r -> the route the request came in by
  body,                 \* r -> req.body as sendBulkSMS sees it
  joined,               \* r -> the refresh promise r first awaited
  token,                \* r -> the token getAuthToken returned to r
  batches,              \* r -> batches
  batchIndex,           \* r -> batchIndex (from 1)
  results,              \* r -> results
  response,             \* r -> the HTTP response sent
  genCalls,             \* r -> generate calls issued on behalf of r
  actCalls,             \* r -> enable calls issued on behalf of r
  sendCalls,            \* r -> send calls issued on behalf of r
  sendLog,              \* r -> the outcomes of the send calls of r, in order
  probe,                \* a helper function's argument and its result
  boots,                \* restarts of the process so far
  tokenStatus           \* the last answer of GET /token-status, if any

sessVars == <<disk, diskWrites, cachedToken, tokenRefreshPromise, refresh,
              issued, handedOld, genCalls, actCalls>>
sendVars == <<batches, batchIndex, results, sendCalls, sendLog>>
vars == <<env, now, disk, diskWrites, cachedToken, tokenRefreshPromise, refresh,
          micro, issued, handedOld, pc, body, joined, token, batches,
          batchIndex, results, response, genCalls, actCalls, sendCalls, sendLog,
          route, probe, boots, tokenStatus>>

NoRefresh == [stage |-> "none", token |-> << >>, reactions |-> << >>,
              before |-> NoToken, writesBefore |-> 0, failedAt |-> ""]

NoBody == Body(<< >>, "", "")

\* no helper function is under examination
NoProbe == [op |-> "none", arg |-> << >>, out |-> << >>, applied |-> FALSE]

\* the module-level state and every request slot, before any request
Boot ==
  /\ now = 0
  /\ boots = 0
  /\ tokenStatus = << >>
  /\ diskWrites = 0
  /\ cachedToken = loadTokenFromDisk(disk)
  /\ tokenRefreshPromise = << >>
  /\ refresh = [p \in Reqs |-> NoRefresh]
  /\ micro = << >>
  /\ issued = 1
  /\ handedOld = {}
  /\ pc = [r \in Reqs |-> "idle"]
  /\ route = [r \in Reqs |-> ""]
  /\ body = [r \in Reqs |-> NoBody]
  /\ joined = [r \in Reqs |-> << >>]
  /\ token = [r \in Reqs |-> << >>]
  /\ batches = [r \in Reqs |-> << >>]
  /\ batchIndex = [r \in Reqs |-> 0]
  /\ results = [r \in Reqs |-> << >>]
  /\ response = [r \in Reqs |-> << >>]
  /\ genCalls = [r \in Reqs |-> 0]
  /\ actCalls = [r \in Reqs |-> 0]
  /\ sendCalls = [r \in Reqs |-> 0]
  /\ sendLog = [r \in Reqs |-> << >>]

Init ==
  /\ env \in Envs
  /\ disk \in Disks
  /\ Boot
  /\ probe = NoProbe

Range(f) == {f[i] : i \in DOMAIN f}

\* variant: the expiry comparison is reversed
CacheValidReversed(c, t) == c.token # << >> /\ t > c.expiry

\* cachedToken.token && Date.now() < cachedToken.expiry
CacheValid(c, t) == c.token # << >> /\ t < c.expiry

\* variant: the lock is never consulted
refreshNeverInProgress == FALSE

\* line 51: if (tokenRefreshPromise)
refreshInProgress == tokenRefreshPromise # << >>

\* variant: the finally block does not clear the lock
lockKept == tokenRefreshPromise

\* line 123: tokenRefreshPromise = null
lockReleased == << >>

\* variant: a waiter ignores the rejection of the refresh it awaited
awaitSwallows(t) == FALSE

\* line 53: await tokenRefreshPromise throws when the refresh was rejected
awaitThrows(t) == ~t.ok

\* variant: a waiter never finds the refreshed token and refreshes again
recheckSkipped == FALSE

\* line 55: the cache check of a caller that has waited
recheckValid == CacheValid(cachedToken, now)

\* variant: the token is cached before the enable response is examined
cacheSetBeforeEnable(p, out) ==
  [token |-> refresh[p].token, expiry |-> now + CacheDays]

\* the value of cachedToken when the refresh closure ends in the enable
\* step, lines 102-111
cacheAfterEnable(p, out) ==
  IF out = "ok" THEN [token |-> refresh[p].token, expiry |-> now + CacheDays]
  ELSE cachedToken

Summary(res) ==
  LET successCount == Cardinality({i \in 1..Len(res) : res[i].success})
  IN  [total |-> Len(res), successful |-> successCount,
       failed |-> Len(res) - successCount]

\* an HTTP response: res.status(status).json({...})
Resp(status, error, message, res) ==
  [status |-> status, error |-> error, message |-> message,
   summary |-> Summary(res), results |-> res]

\* next(error): errorHandler answers err.statusCode || 500
ErrorResp(name, message) == Resp(500, name, message, << >>)

\* the first recipient the validation loop rejects, lines 238-252
recipientError(recipients, template) ==
  LET noPhone(i) == recipients[i].phone = ""
                      \/ ~validatePhoneNumber(recipients[i].phone)
      noText(i) == recipients[i].message = "" /\ template = ""
      bad == {i \in 1..Len(recipients) : noPhone(i) \/ noText(i)}
  IN  IF bad = {} THEN << >>
      ELSE LET i == CHOOSE k \in bad : \A j \in bad : k <= j
           IN  IF noPhone(i)
               THEN << [error |-> "Invalid phone number",
                        message |-> "Invalid phone number: "
                          \o (IF recipients[i].phone = "" THEN "missing"
                              ELSE recipients[i].phone)] >>
               ELSE << [error |-> "Invalid recipient",
                        message |-> "Each recipient must have a message, or provide a template"] >>

\* variant: the length test is off by one
tooManyInclusive(n) == n >= MaxRecipients

\* line 230: recipients.length > 1000
tooMany(n) == n > MaxRecipients

\* the validation of sendBulkSMS, lines 222-252: << >> when the body passes
validationError(b) ==
  IF b.recipients = << >> \/ Len(b.recipients[1]) = 0
  THEN << [error |-> "Invalid request",
           message |-> "recipients must be a non-empty array"] >>
  ELSE IF tooMany(Len(b.recipients[1]))
  THEN << [error |-> "Too many recipients",
           message |-> "Maximum 1000 recipients per request"] >>
  ELSE recipientError(b.recipients[1], b.template)

\* line 257
configIncomplete(b) == ~env.baseUrl \/ ~env.senderId \/ b.templateid = ""

\* the message of the TypeError line 45 throws when cachedToken is null
NullRead == "Cannot read properties of null (reading 'token')"

\* err.name of an error that reaches the error handler
errorName(message) == IF message = NullRead THEN "TypeError" ELSE "Error"

\* a promise reaction waiting in the microtask queue
AuthTask(r, p, ok, val, err) ==
  [kind |-> "auth", req |-> r, promise |-> p, ok |-> ok, val |-> val, err |-> err]
BulkTask(r, ok, val, err) ==
  [kind |-> "bulk", req |-> r, promise |-> 0, ok |-> ok, val |-> val, err |-> err]

\* variant: the generate call never names an old token
oldTokenOmitted(c) == << >>

\* old_token of the generate call, line 81: cachedToken.token || ''
oldToken(c) == c.token

\* getAuthToken from line 61 on: the configuration check, then the refresh
\* closure runs up to its first await (the generate call is issued).
\* q is the microtask queue left by the caller.
startRefresh(r, q) ==
  IF ~env.baseUrl \/ ~env.apiKey
  THEN /\ micro' = Append(q, BulkTask(r, FALSE, << >>,
                     "PRAGATI_API_BASE_URL or PRAGATI_API_KEY not configured"))
       /\ UNCHANGED <<tokenRefreshPromise, refresh, genCalls, handedOld, joined>>
  ELSE /\ micro' = q
       /\ tokenRefreshPromise' = << r >>
       /\ refresh' = [refresh EXCEPT ![r] =
                        [stage |-> "generate", token |-> << >>,
                         reactions |-> << r >>,
                         before |-> cachedToken, writesBefore |-> diskWrites,
                         failedAt |-> ""]]
       /\ genCalls' = [genCalls EXCEPT ![r] = @ + 1]
       /\ handedOld' = handedOld \cup Range(oldToken(cachedToken))
       /\ joined' = [joined EXCEPT ![r] = IF @ = << >> THEN << r >> ELSE @]

\* sendBulkSMS runs on the body b to its first await (or to its response),
\* with the call of getAuthToken up to its first await.
sendBulkSMS(r, b) ==
  /\ micro = << >>
  /\ pc[r] = "idle"
  /\ body' = [body EXCEPT ![r] = b]
  /\ LET verr == validationError(b)
     IN  IF verr # << >>
         THEN /\ response' = [response EXCEPT ![r] =
                               << Resp(400, verr[1].error, verr[1].message, << >>) >>]
              /\ pc' = [pc EXCEPT ![r] = "done"]
              /\ UNCHANGED <<micro, tokenRefreshPromise, refresh, genCalls,
                             handedOld, joined>>
         ELSE IF configIncomplete(b)
         THEN /\ response' = [response EXCEPT ![r] =
                               << ErrorResp("Error", "SMS configuration incomplete") >>]
              /\ pc' = [pc EXCEPT ![r] = "done"]
              /\ UNCHANGED <<micro, tokenRefreshPromise, refresh, genCalls,
                             handedOld, joined>>
         ELSE /\ pc' = [pc EXCEPT ![r] = "auth"]
              /\ UNCHANGED response
              /\ IF cachedToken = Null
                 THEN /\ micro' = << BulkTask(r, FALSE, << >>, NullRead) >>
                      /\ UNCHANGED <<tokenRefreshPromise, refresh, genCalls,
                                     handedOld, joined>>
                 ELSE IF CacheValid(cachedToken, now)
                 THEN /\ micro' = << BulkTask(r, TRUE, cachedToken.token, "") >>
                      /\ UNCHANGED <<tokenRefreshPromise, refresh, genCalls,
                                     handedOld, joined>>
                 ELSE IF refreshInProgress
                 THEN /\ refresh' = [refresh EXCEPT
                                       ![tokenRefreshPromise[1]].reactions = Append(@, r)]
                      /\ joined' = [joined EXCEPT ![r] = tokenRefreshPromise]
                      /\ UNCHANGED <<micro, tokenRefreshPromise, genCalls, handedOld>>
                 ELSE startRefresh(r, << >>)
  /\ UNCHANGED <<env, boots, tokenStatus, probe, now, disk, diskWrites, cachedToken, issued, token,
                 sendVars, actCalls>>

\* POST /send
Enter(r, b) ==
  /\ route' = [route EXCEPT ![r] = "send"]
  /\ sendBulkSMS(r, b)

\* the body sendSingleSMS hands to sendBulkSMS, line 428
singleAsBulk(sb) == Body(<< <<Rcp(sb.phone, sb.message, << >>)>> >>, "", "")

\* the answer of sendSingleSMS to a body it rejects, lines 408-425
singleError(sb) ==
  IF sb.phone = "" \/ sb.message = ""
  THEN << [error |-> "Invalid request",
           message |-> "phone and message are required"] >>
  ELSE IF ~validatePhoneNumber(sb.phone)
  THEN << [error |-> "Invalid phone number",
           message |-> "Phone number must be a valid 10-digit Indian mobile number"] >>
  ELSE << >>

\* POST /send-single: sendSingleSMS answers 400 itself or replaces the
\* body and returns sendBulkSMS(req, res, next)
EnterSingle(r, sb) ==
  /\ route' = [route EXCEPT ![r] = "send-single"]
  /\ IF singleError(sb) # << >>
     THEN /\ micro = << >>
          /\ pc[r] = "idle"
          /\ response' = [response EXCEPT ![r] =
                << Resp(400, singleError(sb)[1].error, singleError(sb)[1].message,
                        << >>) >>]
          /\ pc' = [pc EXCEPT ![r] = "done"]
          /\ UNCHANGED <<env, boots, tokenStatus, probe, now, sessVars, micro, body, joined, token,
                         sendVars>>
     ELSE sendBulkSMS(r, singleAsBulk(sb))

\* variant: only the await of the closure's creator is resumed
reactionsOfStarter(rs) == SubSeq(rs, 1, 1)

\* the awaits resumed when the promise settles (lines 53 and 128): all of
\* them, in the order they were made
reactionsRun(rs) == rs

\* the refresh closure of p ends: the finally block clears the lock, the
\* promise settles and the reactions of its awaiters are queued in order
settle(p, ok, val, err) ==
  /\ tokenRefreshPromise' = lockReleased
  /\ refresh' = [refresh EXCEPT ![p] =
                    [NoRefresh EXCEPT !.stage = IF ok THEN "fulfilled" ELSE "rejected",
                                      !.token = val,
                                      !.failedAt = IF ok THEN "" ELSE refresh[p].stage]]
  /\ micro' = [i \in 1..Len(reactionsRun(refresh[p].reactions)) |->
                 AuthTask(reactionsRun(refresh[p].reactions)[i], p, ok, val, err)]

\* the generate call of refresh p returns, lines 84-100
GenerateReturn(p, out) ==
  /\ micro = << >>
  /\ refresh[p].stage = "generate"
  /\ IF out = "token"
     THEN /\ issued' = issued + 1
          /\ refresh' = [refresh EXCEPT ![p].stage = "enable",
                                        ![p].token = << issued + 1 >>]
          /\ actCalls' = [actCalls EXCEPT ![p] = @ + 1]
          /\ UNCHANGED <<micro, tokenRefreshPromise>>
     ELSE /\ settle(p, FALSE, << >>,
                    CASE out = "notoken" -> "Token not found in API response"
                      [] out = "http" -> "Failed to get auth token: 500 error"
                      [] OTHER -> "fetch failed")
          /\ UNCHANGED <<issued, actCalls>>
  /\ UNCHANGED <<env, boots, tokenStatus, probe, route, now, disk, diskWrites, cachedToken, handedOld, pc, body,
                 joined, token, sendVars, response, genCalls>>

\* variant: saveTokenToDisk lets the error of writeFileSync through
writeErrorRethrown(saved) == ~saved

\* whether a failed write ends the refresh closure with an exception:
\* saveTokenToDisk catches it and only logs, lines 31-36
writeErrorEscapes(saved) == FALSE

\* the enable call of refresh p returns, lines 102-125; saved tells
\* whether writeFileSync succeeded (saveTokenToDisk swallows its error)
EnableReturn(p, out, saved) ==
  /\ micro = << >>
  /\ refresh[p].stage = "enable"
  /\ IF out = "ok"
     THEN /\ cachedToken' = cacheAfterEnable(p, out)
          /\ IF saved
             THEN disk' = savedFile(cachedToken') /\ diskWrites' = diskWrites + 1
             ELSE UNCHANGED <<disk, diskWrites>>
          /\ IF writeErrorEscapes(saved)
             THEN settle(p, FALSE, << >>, "write failed")
             ELSE settle(p, TRUE, refresh[p].token, "")
     ELSE /\ settle(p, FALSE, << >>,
                    IF out = "http" THEN "Failed to enable token: 500 error"
                    ELSE "fetch failed")
          /\ cachedToken' = cacheAfterEnable(p, out)
          /\ UNCHANGED <<disk, diskWrites>>
  /\ UNCHANGED <<env, boots, tokenStatus, probe, route, now, issued, handedOld, pc, body, joined, token, sendVars,
                 response, genCalls, actCalls>>

\* line 128 resumes: the creator of the refresh returns its result
StarterResume ==
  /\ micro # << >>
  /\ LET t == Head(micro)
     IN  /\ t.kind = "auth"
         /\ t.promise = t.req
         /\ micro' = Append(Tail(micro), BulkTask(t.req, t.ok, t.val, t.err))
  /\ UNCHANGED <<env, boots, tokenStatus, probe, route, now, sessVars, pc, body, joined, token, sendVars, response>>

\* line 53 resumes: a caller that waited on another caller's refresh
WaiterResume ==
  /\ micro # << >>
  /\ LET t == Head(micro)
     IN  /\ t.kind = "auth"
         /\ t.promise # t.req
         /\ IF awaitThrows(t)
            THEN /\ micro' = Append(Tail(micro), BulkTask(t.req, FALSE, << >>, t.err))
                 /\ UNCHANGED <<tokenRefreshPromise, refresh, genCalls, handedOld, joined>>
            ELSE IF recheckValid
            THEN /\ micro' = Append(Tail(micro),
                                    BulkTask(t.req, TRUE, cachedToken.token, ""))
                 /\ UNCHANGED <<tokenRefreshPromise, refresh, genCalls, handedOld, joined>>
            ELSE startRefresh(t.req, Tail(micro))
  /\ UNCHANGED <<env, boots, tokenStatus, probe, route, now, disk, diskWrites, cachedToken, issued, actCalls, pc,
                 body, token, sendVars, response>>

Outcome(phone, success, guid, seqno, error, errorCode) ==
  [phone |-> phone, success |-> success, guid |-> guid, seqno |-> seqno,
   error |-> error, errorCode |-> errorCode]

\* variant: a failed batch pushes nothing
batchResultsDropFailed(group, out) ==
  IF out.throws \/ ~out.ok THEN << >>
  ELSE LET parsedResults == parsePragatiResponse(out.text)
       IN  [i \in 1..Len(group) |->
              LET parsed == IF i <= Len(parsedResults) THEN parsedResults[i]
                            ELSE parsedResults[1]
              IN  IF parsed.success
                  THEN Outcome(group[i].phone, TRUE, parsed.guid, parsed.seqno,
                               << >>, << >>)
                  ELSE Outcome(group[i].phone, FALSE, << >>, << >>,
                               parsed.errorMessage, << parsed.errorCode >>)]

\* variant: a member without a parsed result takes the last one
batchResultsFallbackLast(group, out) ==
  IF out.throws
  THEN [i \in 1..Len(group) |->
          Outcome(group[i].phone, FALSE, << >>, << >>, << out.text >>, << >>)]
  ELSE IF ~out.ok
  THEN [i \in 1..Len(group) |->
          Outcome(group[i].phone, FALSE, << >>, << >>,
                  << "HTTP " \o out.status \o ": " \o out.text >>, << >>)]
  ELSE LET parsedResults == parsePragatiResponse(out.text)
       IN  [i \in 1..Len(group) |->
              LET parsed == IF i <= Len(parsedResults) THEN parsedResults[i]
                            ELSE parsedResults[Len(parsedResults)]
              IN  IF parsed.success
                  THEN Outcome(group[i].phone, TRUE, parsed.guid, parsed.seqno,
                               << >>, << >>)
                  ELSE Outcome(group[i].phone, FALSE, << >>, << >>,
                               parsed.errorMessage, << parsed.errorCode >>)]

\* what one batch pushes to results, lines 321-375
batchResults(group, out) ==
  IF out.throws
  THEN [i \in 1..Len(group) |->
          Outcome(group[i].phone, FALSE, << >>, << >>, << out.text >>, << >>)]
  ELSE IF ~out.ok
  THEN [i \in 1..Len(group) |->
          Outcome(group[i].phone, FALSE, << >>, << >>,
                  << "HTTP " \o out.status \o ": " \o out.text >>, << >>)]
  ELSE LET parsedResults == parsePragatiResponse(out.text)
       IN  [i \in 1..Len(group) |->
              LET parsed == IF i <= Len(parsedResults) THEN parsedResults[i]
                            ELSE parsedResults[1]
              IN  IF parsed.success
                  THEN Outcome(group[i].phone, TRUE, parsed.guid, parsed.seqno,
                               << >>, << >>)
                  ELSE Outcome(group[i].phone, FALSE, << >>, << >>,
                               parsed.errorMessage, << parsed.errorCode >>)]

\* variant: the loop does not await its send calls
unawaitedSends(bs) == Len(bs)

\* the send calls issued before the loop first suspends: it awaits the
\* fetch of the first batch, lines 297-323
awaitedSends(bs) == 1

\* line 261 resumes: sendBulkSMS gets the token (or the error), builds the
\* batches and issues the first send call
BulkResume ==
  /\ micro # << >>
  /\ LET t == Head(micro)
         r == t.req
         recipients == body[r].recipients[1]
     IN  /\ t.kind = "bulk"
         /\ micro' = Tail(micro)
         /\ IF ~t.ok
            THEN /\ response' = [response EXCEPT ![r] = << ErrorResp(errorName(t.err), t.err) >>]
                 /\ pc' = [pc EXCEPT ![r] = "done"]
                 /\ UNCHANGED <<token, batches, batchIndex, sendCalls>>
            ELSE IF groupingThrows(recipients, body[r].template)
            THEN /\ response' = [response EXCEPT ![r] =
                      << ErrorResp("TypeError",
                                   "groupedByMessage[messageText].push is not a function") >>]
                 /\ pc' = [pc EXCEPT ![r] = "done"]
                 /\ UNCHANGED <<token, batches, batchIndex, sendCalls>>
            ELSE /\ token' = [token EXCEPT ![r] = t.val]
                 /\ batches' = [batches EXCEPT ![r] =
                                  makeBatches(recipients, body[r].template)]
                 /\ batchIndex' = [batchIndex EXCEPT ![r] = 1]
                 /\ sendCalls' = [sendCalls EXCEPT ![r] = @ + awaitedSends(batches'[r])]
                 /\ pc' = [pc EXCEPT ![r] = "sending"]
                 /\ UNCHANGED response
  /\ UNCHANGED <<env, boots, tokenStatus, probe, route, now, sessVars, body, joined, results, sendLog>>

\* the send call of the current batch returns or fails; its members'
\* outcomes are pushed and the 500 ms timer is started, lines 321-378
SendReturn(r, out) ==
  /\ micro = << >>
  /\ pc[r] = "sending"
  /\ results' = [results EXCEPT ![r] =
                   @ \o batchResults(batches[r][batchIndex[r]].recipients, out)]
  /\ sendLog' = [sendLog EXCEPT ![r] = Append(@, out)]
  /\ pc' = [pc EXCEPT ![r] = "delay"]
  /\ UNCHANGED <<env, boots, tokenStatus, probe, route, now, sessVars, micro, body, joined, token, batches,
                 batchIndex, sendCalls, response>>

\* the timer fires: the next batch is sent, or the response is written
\* and the handler's locals are gone, lines 297 and 381-394
DelayDone(r) ==
  /\ micro = << >>
  /\ pc[r] = "delay"
  /\ IF batchIndex[r] < Len(batches[r])
     THEN /\ batchIndex' = [batchIndex EXCEPT ![r] = @ + 1]
          /\ sendCalls' = [sendCalls EXCEPT ![r] = @ + 1]
          /\ pc' = [pc EXCEPT ![r] = "sending"]
          /\ UNCHANGED <<response, token, batches, results>>
     ELSE /\ response' = [response EXCEPT ![r] =
               << Resp(200, "",
                       "Sent " \o ToString(Summary(results[r]).successful)
                         \o " SMS, " \o ToString(Summary(results[r]).failed)
                         \o " failed",
                       results[r]) >>]
          /\ pc' = [pc EXCEPT ![r] = "done"]
          /\ token' = [token EXCEPT ![r] = << >>]
          /\ batches' = [batches EXCEPT ![r] = << >>]
          /\ batchIndex' = [batchIndex EXCEPT ![r] = 0]
          /\ results' = [results EXCEPT ![r] = << >>]
          /\ UNCHANGED sendCalls
  /\ UNCHANGED <<env, boots, tokenStatus, probe, route, now, sessVars, micro, body, joined, sendLog>>

\* a day passes.  Promise reactions run to completion in the microtask
\* checkpoint of the step that settled the promise, so no day passes
\* while the microtask queue is not empty.
Tick ==
  /\ micro = << >>
  /\ now < MaxTime
  /\ now' = now + 1
  /\ UNCHANGED <<env, boots, tokenStatus, probe, route, sessVars, micro, pc, body, joined, token, sendVars, response>>

\* the process is stopped and started again: the module is initialised
\* from the file, the requests in progress are lost
Restart ==
  /\ micro = << >>
  /\ boots < MaxRestarts
  /\ boots' = boots + 1
  /\ cachedToken' = loadTokenFromDisk(disk)
  /\ tokenRefreshPromise' = << >>
  /\ refresh' = [p \in Reqs |-> NoRefresh]
  /\ pc' = [r \in Reqs |-> IF pc[r] \in {"idle", "done"} THEN pc[r] ELSE "lost"]
  /\ token' = [r \in Reqs |-> << >>]
  /\ batches' = [r \in Reqs |-> << >>]
  /\ batchIndex' = [r \in Reqs |-> 0]
  /\ results' = [r \in Reqs |-> << >>]
  /\ UNCHANGED <<env, tokenStatus, probe, route, now, disk, diskWrites, micro, issued,
                 handedOld, body, joined, response, genCalls, actCalls,
                 sendCalls, sendLog>>

\* GET /token-status: the handler reads cachedToken and the clock and
\* answers; reading a property of null throws, which Express hands to the
\* error handler. The remaining time is kept in days.
getTokenStatus ==
  /\ micro = << >>
  /\ tokenStatus' =
       IF cachedToken = Null
       THEN << [status |-> 500, error |-> "TypeError", message |-> NullRead] >>
       ELSE LET isValid == CacheValid(cachedToken, now)
                expiresIn == IF isValid THEN cachedToken.expiry - now ELSE 0
            IN  << [status |-> 200,
                    valid |-> IF cachedToken.token = << >> THEN << >> ELSE << isValid >>,
                    expiresIn |-> IF expiresIn > 0 THEN << expiresIn >> ELSE << >>,
                    expiresAt |-> IF isValid THEN << cachedToken.expiry >> ELSE << >>] >>
  /\ UNCHANGED <<env, boots, probe, route, now, sessVars, micro, pc, body, joined,
                 token, sendVars, response>>

\* the steps of the program, with the request bodies and the gateway's
\* send outcomes drawn from the scenario sc
NextOf(sc) ==
  \/ \E r \in Reqs : \E b \in sc[r].bodies : Enter(r, b)
  \/ \E r \in Reqs : \E sb \in sc[r].singles : EnterSingle(r, sb)
  \/ \E p \in Reqs, out \in GenOutcomes : GenerateReturn(p, out)
  \/ \E p \in Reqs, out \in EnableOutcomes, saved \in BOOLEAN : EnableReturn(p, out, saved)
  \/ StarterResume
  \/ WaiterResume
  \/ BulkResume
  \/ \E r \in Reqs : \E out \in sc[r].outcomes : SendReturn(r, out)
  \/ \E r \in Reqs : DelayDone(r)
  \/ Tick

Next == NextOf(PlainScenario)

Spec == Init /\ [][Next]_vars

\* the process starts fully configured with a cached token
InitWarm ==
  /\ Init
  /\ env = [baseUrl |-> TRUE, apiKey |-> TRUE, senderId |-> TRUE]
  /\ disk # << >>

NextBatch == NextOf(BatchScenario)

SpecBatch == InitWarm /\ [][NextBatch]_vars

NextLimit == NextOf(LimitScenario)

SpecLimit == InitWarm /\ [][NextLimit]_vars

NextOrder == NextOf(OrderScenario)

\* the file a process may find at its start: none, one it cannot read,
\* text that is not JSON, the JSON texts null and 5, a saved record
StartupDisks ==
  { << >>, << Unreadable >>, << File("not json") >>, << File("null") >>,
    << File("5") >>, savedFile([token |-> <<1>>, expiry |-> 1]) }

\* the scenario of the start-up properties: requests 1 and 2 have one
\* recipient (request 2 may come in by the single route), the others are
\* rejected
StartupScenario ==
  [r \in Reqs |-> IF r = 1 THEN [bodies |-> SingleBodies, singles |-> {},
                                 outcomes |-> PlainOutcomes]
                  ELSE IF r = 2 THEN [bodies |-> SingleBodies, singles |-> PlainSingles,
                                      outcomes |-> PlainOutcomes]
                  ELSE [bodies |-> RejectedBodies, singles |-> {},
                        outcomes |-> PlainOutcomes]]

InitStartup ==
  /\ env = [baseUrl |-> TRUE, apiKey |-> TRUE, senderId |-> TRUE]
  /\ disk \in StartupDisks
  /\ Boot
  /\ probe = NoProbe

NextStartup == NextOf(StartupScenario) \/ Restart

SpecStartup == InitStartup /\ [][NextStartup]_vars

\* the same requests with the status query, in one run of the process
\* started with a complete configuration
InitStatus ==
  /\ env = [baseUrl |-> TRUE, apiKey |-> TRUE, senderId |-> TRUE]
  /\ disk \in Disks
  /\ Boot
  /\ probe = NoProbe

NextStatus == NextOf(StartupScenario) \/ getTokenStatus

\* the same requests when every gateway call returns or fails, the event
\* loop runs the queued reactions and the timers fire: while a call is
\* pending, a reaction is queued or a timer is set, one of them is handled
\* in the end. Nothing obliges a request to arrive or the clock to advance.
NextLive == NextOf(StartupScenario)

Progress ==
  \/ \E p \in Reqs, out \in GenOutcomes : GenerateReturn(p, out)
  \/ \E p \in Reqs, out \in EnableOutcomes, saved \in BOOLEAN : EnableReturn(p, out, saved)
  \/ StarterResume
  \/ WaiterResume
  \/ BulkResume
  \/ \E r \in Reqs : \E out \in StartupScenario[r].outcomes : SendReturn(r, out)
  \/ \E r \in Reqs : DelayDone(r)

\* a step of Progress is possible: a reaction is queued, or a generate, an
\* enable or a send call is pending, or a delay is running
ProgressEnabled ==
  \/ micro # << >>
  \/ \E r \in Reqs : \/ refresh[r].stage \in {"generate", "enable"}
                     \/ pc[r] \in {"sending", "delay"}

\* weak fairness of Progress, with its enabling condition written out
Fairness == []<>(~ProgressEnabled) \/ []<><<Progress>>_vars

SpecLive == InitStatus /\ [][NextLive]_vars /\ Fairness

SpecStatus == InitStatus /\ [][NextStatus]_vars

SpecOrder == InitWarm /\ [][NextOrder]_vars

(***************************************************************************)
(* The helper functions on their own: the initial state draws a function   *)
(* and its argument, the step applies the function                         *)
(***************************************************************************)
MaxCodes == 3          \* error codes (and sequence numbers) in one response
MaxMembers == 3        \* members of a batch in the reconciliation
MaxPlaceholders == 2   \* placeholders in a template

progVars == <<env, boots, tokenStatus, now, sessVars, micro, pc, route, body, joined, token,
              sendVars, response>>

Probe(op, arg) == [op |-> op, arg |-> arg, out |-> << >>, applied |-> FALSE]

\* phone strings: an optional prefix, a first digit, digits with or
\* without separators and letters, and 0 to 2 further digits
PhoneInputs ==
  { h \o f \o m \o t :
      h \in {"", "+91 ", "0", "91"},
      f \in {"0", "5", "6", "7", "8", "9"},
      m \in {"8765", "87654321", "876-543 21", "8765432a1", "12345678"},
      t \in {"", "0", "00"} }

\* the phone of the i-th recipient of a generated list
PhoneOf(i) ==
  LET d == ToString(i) IN "9" \o SubSeq("000000000", 1, 9 - Len(d)) \o d

\* generated recipient lists: n recipients with one text, with two texts
\* alternating, with every third recipient taking the template text, or
\* with every third text the name of an inherited property
ListSizes == {1, 2, 99, 100, 101, 199, 200, 201, 250}
ListOf(n, pattern) ==
  [i \in 1..n |->
     CASE pattern = "same" -> Rcp(PhoneOf(i), "hello", << >>)
       [] pattern = "alternating" ->
            Rcp(PhoneOf(i), IF i % 2 = 1 THEN "hello" ELSE "bye", << >>)
       [] pattern = "inherited" ->
            Rcp(PhoneOf(i), IF i % 3 = 0 THEN "constructor" ELSE "hello", << >>)
       [] OTHER ->
            Rcp(PhoneOf(i), IF i % 3 = 0 THEN "" ELSE "hello", <<"Sam">>)]
ListInputs ==
  { [recipients |-> ListOf(n, pattern), template |-> "Hi {#var#}"] :
      n \in ListSizes, pattern \in {"same", "alternating", "third", "inherited"} }

\* arr.join(sep)
RECURSIVE Join(_, _)
Join(list, sep) ==
  IF list = << >> THEN ""
  ELSE IF Len(list) = 1 THEN list[1]
  ELSE list[1] \o sep \o Join(Tail(list), sep)

\* the non-empty lists of at most n elements of S
ListsOver(S, n) == UNION { [1..k -> S] : k \in 1..n }

\* a gateway response with an optional guid field, an optional list of
\* error codes and an optional list of sequence numbers
ResponseText(a) ==
  Join((IF a.guid = << >> THEN << >> ELSE << "guid=" \o a.guid[1] >>)
         \o (IF a.codes = << >> THEN << >>
             ELSE << "errorcode=" \o Join(a.codes[1], ",") >>)
         \o (IF a.seqnos = << >> THEN << >>
             ELSE << "seqno=" \o Join(a.seqnos[1], ",") >>),
       "&")

ResponsesOver(guids, codes, seqnos) ==
  { [guid |-> g, codes |-> c, seqnos |-> q] :
      g \in guids,
      c \in {<< >>} \cup { <<l>> : l \in ListsOver(codes, MaxCodes) },
      q \in {<< >>} \cup { <<l>> : l \in ListsOver(seqnos, MaxCodes) } }

\* responses with listed codes, unlisted codes and with no field at all
ResponseInputs ==
  ResponsesOver({<< >>, <<"G1">>}, {"0", "1", "14", "99", "constructor"},
                {"911", "912"})

\* a batch of n members and the response to its send call
ReconcileInputs ==
  { [group |-> ListOf(n, "same"), response |-> a] :
      n \in 1..MaxMembers,
      a \in ResponsesOver({<<"G1">>}, {"0", "7"}, {"911"}) }

\* the lists of at most n elements of S
ListsUpTo(S, n) == {<< >>} \cup ListsOver(S, n)

\* a recipient and a template: the template is given by the texts around
\* its placeholders, the values may be too few or too many and may
\* themselves contain the placeholder; the message is present or not
TemplateInputs ==
  { [message |-> m, parts |-> ps, vars |-> vs] :
      m \in {"", "hello"},
      ps \in ListsOver({"", "Hi ", ", code "}, MaxPlaceholders + 1),
      vs \in ListsUpTo({"Sam", "123", Placeholder}, MaxPlaceholders + 1) }

InitHelpers ==
  /\ env = [baseUrl |-> TRUE, apiKey |-> TRUE, senderId |-> TRUE]
  /\ disk = << >>
  /\ Boot
  /\ probe \in { Probe("phone", a) : a \in PhoneInputs }
               \cup { Probe("batches", a) : a \in ListInputs }
               \cup { Probe("parse", a) : a \in ResponseInputs }
               \cup { Probe("reconcile", a) : a \in ReconcileInputs }
               \cup { Probe("template", a) : a \in TemplateInputs }

\* the probe after the function has returned out
Applied(out) == [probe EXCEPT !.out = out, !.applied = TRUE]

\* validatePhoneNumber(phone) and formatPhoneWithCountryCode(phone)
PhoneProbe ==
  /\ probe.op = "phone" /\ ~probe.applied
  /\ probe' = Applied([valid |-> validatePhoneNumber(probe.arg),
                       wire |-> formatPhoneWithCountryCode(probe.arg)])
  /\ UNCHANGED progVars

\* the grouping and splitting of lines 265-292: the batches, or the
\* TypeError of line 275
BatchProbe ==
  /\ probe.op = "batches" /\ ~probe.applied
  /\ probe' = Applied(
       IF groupingThrows(probe.arg.recipients, probe.arg.template)
       THEN [threw |-> TRUE, batches |-> << >>]
       ELSE [threw |-> FALSE,
             batches |-> makeBatches(probe.arg.recipients, probe.arg.template)])
  /\ UNCHANGED progVars

\* parsePragatiResponse(responseText, recipientCount)
ParseProbe ==
  /\ probe.op = "parse" /\ ~probe.applied
  /\ probe' = Applied(parsePragatiResponse(ResponseText(probe.arg)))
  /\ UNCHANGED progVars

\* the outcomes of a batch whose send call returned a success status
ReconcileProbe ==
  /\ probe.op = "reconcile" /\ ~probe.applied
  /\ probe' = Applied(
       batchResults(probe.arg.group,
                    [throws |-> FALSE, ok |-> TRUE, status |-> "200",
                     text |-> ResponseText(probe.arg.response)]))
  /\ UNCHANGED progVars

\* the message text of a recipient, lines 268-270
TemplateProbe ==
  /\ probe.op = "template" /\ ~probe.applied
  /\ probe' = Applied(messageTextOf(Rcp(GoodPhone, probe.arg.message, probe.arg.vars),
                                    Join(probe.arg.parts, Placeholder)))
  /\ UNCHANGED progVars

NextHelpers ==
  \/ TemplateProbe
  \/ PhoneProbe
  \/ BatchProbe
  \/ ParseProbe
  \/ ReconcileProbe

SpecHelpers == InitHelpers /\ [][NextHelpers]_vars

(***************************************************************************)
(* Properties of the token cache and its promise lock                      *)
(***************************************************************************)
\* the refresh closures that have started and not yet ended
InFlight == {p \in Reqs : refresh[p].stage \in {"generate", "enable"}}

\* the requests whose promise reaction is queued as a microtask
Queued == {micro[i].req : i \in 1..Len(micro)}

\* the callers whose getAuthToken call first awaited the refresh of p
Group(p) == {r \in Reqs : joined[r] = << p >>}

RECURSIVE SumOver(_, _)
SumOver(f, S) ==
  IF S = {} THEN 0
  ELSE LET r == CHOOSE k \in S : TRUE IN f[r] + SumOver(f, S \ {r})

\* C1: in every reachable state at most one refresh (generate + enable
\* handshake) is in flight, whatever the interleaving of the callers of
\* getAuthToken, those that wait on a refresh and resume included.
C1_SingleFlight == Cardinality(InFlight) <= 1

\* a caller has waited on another caller's refresh and has resumed with the token
C1_Witness ==
  \E p \in Reqs, w \in Reqs :
    /\ w # p
    /\ joined[w] = << p >>
    /\ refresh[p].stage = "fulfilled"
    /\ token[w] # << >>

\* C2: the callers of one successful refresh (the one that started it and
\* those that waited on it) cause one generate call and one enable call in
\* total, and each of them gets the token of that refresh.
C2_OneHandshakeOneToken ==
  \A p \in Reqs :
    refresh[p].stage = "fulfilled" =>
      /\ SumOver(genCalls, Group(p)) = 1
      /\ SumOver(actCalls, Group(p)) = 1
      /\ \A r \in Group(p) :
           /\ r \notin Queued => pc[r] # "auth"
           /\ pc[r] \in {"sending", "delay"} => token[r] = refresh[p].token
           /\ pc[r] = "done" => response[r][1].status = 200

\* two callers of one refresh hold its token at the same time
C2_Witness ==
  \E p \in Reqs, w \in Reqs :
    /\ w # p
    /\ Group(p) = {p, w}
    /\ refresh[p].stage = "fulfilled"
    /\ token[p] # << >>
    /\ token[w] = token[p]

\* C3: whenever a send call is issued, the token it carries is present, is
\* the token the cache holds, is not expired and was not handed to the
\* gateway as the old token of a refresh.
C3_SendsCarryCurrentCredential ==
  [][\A r \in Reqs :
       sendCalls'[r] > sendCalls[r] =>
         /\ token'[r] # << >>
         /\ token'[r] = cachedToken'.token
         /\ now' < cachedToken'.expiry
         /\ token'[r][1] \notin handedOld']_vars

C5_FailureReachesEveryCaller ==
  \A p \in Reqs :
    refresh[p].stage = "rejected" =>
      \A r \in Group(p) :
        /\ token[r] = << >>
        /\ genCalls[r] = (IF r = p THEN 1 ELSE 0)
        /\ actCalls[r] = (IF r = p /\ refresh[p].failedAt = "enable" THEN 1 ELSE 0)
        /\ \/ pc[r] = "auth" /\ r \in Queued
           \/ pc[r] = "done" /\ response[r][1].status = 500

\* a caller that waited on a failed refresh has got the error
C5_Witness ==
  \E p \in Reqs, w \in Reqs :
    /\ w # p
    /\ joined[w] = << p >>
    /\ refresh[p].stage = "rejected"
    /\ pc[w] = "done"
    /\ pc[p] = "done"

\* C6: the promise lock never refers to a refresh that has ended, and a
\* caller that waits is waiting on a refresh that is still running.
C6_LockClearedOnCompletion ==
  /\ \A p \in Reqs :
       refresh[p].stage \in {"fulfilled", "rejected"} => tokenRefreshPromise # << p >>
  /\ \A r \in Reqs :
       (pc[r] = "auth" /\ r \notin Queued) =>
         \E p \in InFlight : r \in Range(refresh[p].reactions)

\* after a failed refresh, a later caller has started a new one
C6_Witness ==
  \E p \in Reqs, q \in Reqs :
    /\ refresh[p].stage = "rejected"
    /\ refresh[q].stage = "generate"
    /\ tokenRefreshPromise = << q >>

\* C7: a call of getAuthToken made while a token is cached and the clock
\* is before its expiry returns that token and causes no generate call, no
\* enable call and no write of the cache file.
C7_CacheHitDoesNoIO ==
  [][\A r \in Reqs :
       (/\ pc[r] = "idle"
        /\ pc'[r] = "auth"
        /\ cachedToken.token # << >>
        /\ now < cachedToken.expiry) =>
         /\ genCalls' = genCalls
         /\ actCalls' = actCalls
         /\ diskWrites' = diskWrites
         /\ disk' = disk
         /\ cachedToken' = cachedToken
         /\ tokenRefreshPromise' = tokenRefreshPromise
         /\ micro' = << BulkTask(r, TRUE, cachedToken.token, "") >>]_vars

\* a caller got the cached token without joining any refresh
C7_Witness ==
  \E r \in Reqs :
    /\ token[r] # << >>
    /\ token[r] = cachedToken.token
    /\ now < cachedToken.expiry
    /\ joined[r] = << >>
    /\ genCalls[r] = 0

\* C8: a request whose credential acquisition failed (generate or enable
\* failed) is still answered with status 200 and one outcome per recipient.
C8_SessionErrorStaysInside ==
  \A r \in Reqs :
    (/\ pc[r] = "done"
     /\ joined[r] # << >>
     /\ refresh[joined[r][1]].stage = "rejected") =>
      /\ response[r][1].status = 200
      /\ Len(response[r][1].results) = Len(body[r].recipients[1])

(***************************************************************************)
(* Properties of the bulk-send handler                                     *)
(***************************************************************************)
RECURSIVE MembersBefore(_, _)
\* the number of recipients in the batches before batch i
MembersBefore(bs, i) ==
  IF i <= 1 THEN 0 ELSE Len(bs[i - 1].recipients) + MembersBefore(bs, i - 1)

\* the success flag the response of a batch gives its member at position j
MemberSucceeds(out, j) ==
  /\ ~out.throws
  /\ out.ok
  /\ LET parsed == parsePragatiResponse(out.text)
     IN  IF j <= Len(parsed) THEN parsed[j].success ELSE parsed[1].success

\* C9: once a request has started to send, it is answered with status 200
\* whatever happens to its batches; every batch is sent; the outcome list
\* holds the members of every batch in batch order; the members of a batch
\* whose send call failed (exception or non-success status) are all failed;
\* and the outcome of every other member depends on the response of its own
\* batch only.
C9_BatchFailureIsolated ==
  \A r \in Reqs :
    (pc[r] = "done" /\ sendCalls[r] > 0) =>
      LET bs == makeBatches(body[r].recipients[1], body[r].template)
          res == response[r][1].results
      IN  /\ response[r][1].status = 200
          /\ sendCalls[r] = Len(bs)
          /\ Len(sendLog[r]) = Len(bs)
          /\ Len(res) = Len(body[r].recipients[1])
          /\ \A i \in 1..Len(bs) : \A j \in 1..Len(bs[i].recipients) :
               LET o == res[MembersBefore(bs, i) + j]
               IN  /\ o.phone = bs[i].recipients[j].phone
                   /\ o.success = MemberSucceeds(sendLog[r][i], j)
                   /\ (sendLog[r][i].throws \/ ~sendLog[r][i].ok) => ~o.success

\* a request of three batches is answered although its first batch threw
\* and its second got a non-success status; its third batch succeeded
C9_Witness ==
  \E r \in Reqs :
    /\ pc[r] = "done"
    /\ Len(sendLog[r]) = 3
    /\ sendLog[r][1].throws
    /\ ~sendLog[r][2].throws /\ ~sendLog[r][2].ok
    /\ sendLog[r][3].ok
    /\ response[r][1].results[4].success

\* the body is one the validation has to reject
MustReject(b) ==
  \/ b.recipients = << >>
  \/ Len(b.recipients[1]) = 0
  \/ Len(b.recipients[1]) > 1000
  \/ \E rc \in Range(b.recipients[1]) :
       \/ ~validatePhoneNumber(rc.phone)
       \/ rc.message = "" /\ b.template = ""

SettingMissing(r) ==
  ~env.baseUrl \/ ~env.apiKey \/ ~env.senderId \/ body[r].templateid = ""

ConfigErrors == {"SMS configuration incomplete",
                 "PRAGATI_API_BASE_URL or PRAGATI_API_KEY not configured"}

\* C11: when the base URL, the API key, the sender id or the template id is
\* missing, a request that passed validation issues no send call and ends
\* with a configuration error, whatever the cached token
C11_MissingSettingFailsBeforeDispatch ==
  \A r \in Reqs :
    (pc[r] # "idle" /\ validationError(body[r]) = << >> /\ SettingMissing(r))
      => /\ sendCalls[r] = 0
         /\ pc[r] = "done" => /\ response[r][1].status = 500
                              /\ response[r][1].message \in ConfigErrors

\* C12: a POST /send-single body with a valid phone and a message is
\* turned into a one-recipient submission and, in a configured process,
\* sent as one batch of one, with one outcome for that phone
C12_SingleFormIsDispatched ==
  \A r \in Reqs :
    (/\ env.baseUrl /\ env.apiKey /\ env.senderId
     /\ route[r] = "send-single" /\ body[r] # NoBody /\ pc[r] = "done")
      => /\ Len(body[r].recipients[1]) = 1
         /\ sendCalls[r] = 1
         /\ response[r][1].status = 200
         /\ Len(response[r][1].results) = 1
         /\ response[r][1].results[1].phone = body[r].recipients[1][1].phone

\* the resolved message texts of the recipients of request r, in order
RecipientTexts(r) ==
  [i \in 1..Len(body[r].recipients[1]) |->
     messageTextOf(body[r].recipients[1][i], body[r].template)]

\* the texts of the batches of request r sent so far, without repetition
SentTexts(r) ==
  InsertionKeys([i \in 1..batchIndex[r] |-> batches[r][i].messageText])

\* C13: the batches of one operation are sent in the order in which their
\* message texts first occur in the recipient list, whatever the texts
C13_BatchesInFirstOccurrenceOrder ==
  \A r \in Reqs :
    pc[r] = "sending"
      => SentTexts(r) = SubSeq(InsertionKeys(RecipientTexts(r)), 1, Len(SentTexts(r)))

\* the send calls of request r that have been issued and have not yet
\* returned or failed
SendsInFlight(r) == sendCalls[r] - Len(sendLog[r])

\* C14: at most one send call of an operation is in flight: the call of a
\* batch is issued only after the call of the batch before it has returned
\* or failed
C14_OneSendInFlight ==
  \A r \in Reqs :
    /\ SendsInFlight(r) \in {0, 1}
    /\ SendsInFlight(r) = 1 <=> pc[r] = "sending"
    /\ pc[r] = "sending" => batchIndex[r] = sendCalls[r]

\* the second batch of an operation is in flight, the first has returned
C14_Witness ==
  \E r \in Reqs :
    pc[r] = "sending" /\ batchIndex[r] = 2 /\ Len(sendLog[r]) = 1

\* C15: a send call that follows another one of the same operation is
\* issued out of the pacing delay, and the delay is entered only when a
\* further batch remains: after the last batch's call the response comes
\* without a delay
C15_DelayOnlyBetweenBatches ==
  [][\A r \in Reqs :
       /\ (sendCalls[r] >= 1 /\ sendCalls'[r] > sendCalls[r]) => pc[r] = "delay"
       /\ (pc[r] = "sending" /\ pc'[r] = "delay") => batchIndex[r] < Len(batches[r])
       /\ (pc[r] = "sending" /\ batchIndex[r] = Len(batches[r]))
            => pc'[r] \in {"sending", "done"}]_vars

(***************************************************************************)
(* Properties of the helper functions                                      *)
(***************************************************************************)
\* the positions of the digits in the string s
DigitPositions(s) == {i \in 1..Len(s) : Char(s, i) \in Digits}

\* ten digits of which the first is 6, 7, 8 or 9
TenDigitMobile(s) ==
  /\ Cardinality(DigitPositions(s)) = 10
  /\ \E i \in DigitPositions(s) :
       /\ \A j \in DigitPositions(s) : i <= j
       /\ Char(s, i) \in {"6", "7", "8", "9"}

\* C16: a phone passes validation iff its digits, the other characters
\* left out, are ten and start with 6, 7, 8 or 9; "98765" and
\* "5876543210" fail
C16_ValidIffTenDigitMobile ==
  (probe.op = "phone" /\ probe.applied)
    => /\ probe.out.valid <=> TenDigitMobile(probe.arg)
       /\ probe.arg \in {"98765", "5876543210"} => ~probe.out.valid

\* a number written with separators has been accepted
C16_Witness ==
  /\ probe.op = "phone" /\ probe.applied
  /\ probe.arg = "9876-543 210"
  /\ probe.out.valid

\* C17: "+91 9876543210" passes validation and goes on the wire as
\* "919876543210"
C17_CountryPrefixAccepted ==
  (probe.op = "phone" /\ probe.applied /\ probe.arg = "+91 9876543210")
    => /\ probe.out.valid
       /\ probe.out.wire = "919876543210"

\* the members of the batches bs, batch after batch
RECURSIVE Flatten(_)
Flatten(bs) ==
  IF bs = << >> THEN << >> ELSE bs[1].recipients \o Flatten(Tail(bs))

TaxonomyMessage(code) ==
  IF code \in {"1", "2", "3", "4", "5", "6", "7", "8", "14"}
  THEN errorMessages[code]
  ELSE "Unknown error code: " \o code

\* C19: parsePragatiResponse gives one result per error code, in order,
\* with the sequence number of the same position when there is one; code
\* "0" is a success with the guid of the response, any other code a
\* failure without guid and with the message of the taxonomy; a response
\* without error codes gives one result with code "0"
C19_ParsedResultPerCode ==
  (probe.op = "parse" /\ probe.applied)
    => LET codes == IF probe.arg.codes = << >> THEN << "0" >> ELSE probe.arg.codes[1]
           seqnos == IF probe.arg.seqnos = << >> THEN << >> ELSE probe.arg.seqnos[1]
           out == probe.out
       IN  /\ Len(out) = Len(codes)
           /\ \A i \in 1..Len(codes) :
                /\ out[i].errorCode = codes[i]
                /\ out[i].seqno = IF i <= Len(seqnos) THEN << seqnos[i] >> ELSE << >>
                /\ out[i].success <=> codes[i] = "0"
                /\ codes[i] = "0" => /\ out[i].guid = probe.arg.guid
                                     /\ out[i].errorMessage = << >>
                /\ codes[i] # "0" => /\ out[i].guid = << >>
                                     /\ out[i].errorMessage = << TaxonomyMessage(codes[i]) >>

\* the code each member of a batch is answered with: the code at its own
\* position, or the first code when the response has fewer codes
MemberCode(codes, i) == IF i <= Len(codes) THEN codes[i] ELSE codes[1]

\* C20: after a send call with a success status, member i of the batch
\* gets the parsed result at position i, or the first parsed result when
\* there are fewer results than members; further results are ignored
C20_MemberTakesResultAtItsPosition ==
  (probe.op = "reconcile" /\ probe.applied)
    => LET group == probe.arg.group
           codes == IF probe.arg.response.codes = << >> THEN << "0" >>
                    ELSE probe.arg.response.codes[1]
           seqnos == IF probe.arg.response.seqnos = << >> THEN << >>
                     ELSE probe.arg.response.seqnos[1]
           out == probe.out
       IN  /\ Len(out) = Len(group)
           /\ \A i \in 1..Len(group) :
                LET k == IF i <= Len(codes) THEN i ELSE 1
                IN  /\ out[i].phone = group[i].phone
                    /\ out[i].success <=> MemberCode(codes, i) = "0"
                    /\ out[i].success
                         => /\ out[i].guid = probe.arg.response.guid
                            /\ out[i].seqno = IF k <= Len(seqnos) THEN << seqnos[k] >>
                                              ELSE << >>
                    /\ ~out[i].success
                         => /\ out[i].errorCode = << MemberCode(codes, i) >>
                            /\ out[i].error = << TaxonomyMessage(MemberCode(codes, i)) >>

\* a batch of three got two results, the first a failure and the second a
\* success: the third member is answered with the first
C20_Witness ==
  /\ probe.op = "reconcile" /\ probe.applied
  /\ Len(probe.arg.group) = 3
  /\ probe.arg.response.codes = << <<"7", "0">> >>
  /\ ~probe.out[1].success /\ probe.out[2].success /\ ~probe.out[3].success
  /\ probe.out[3].errorCode = << "7" >>

\* the texts parts with the k-th gap filled by the k-th value, or by
\* nothing when there is no k-th value
RECURSIVE Filled(_, _, _)
Filled(parts, values, k) ==
  IF Len(parts) = 1 THEN parts[1]
  ELSE parts[1] \o (IF k <= Len(values) THEN values[k] ELSE "")
         \o Filled(Tail(parts), values, k + 1)

\* C21: the text of a recipient is its message when it has one; otherwise
\* the template with its k-th placeholder replaced by the k-th value, by
\* nothing when there is no k-th value, further values ignored and the
\* values put in never scanned again
C21_TextIsMessageOrFilledTemplate ==
  (probe.op = "template" /\ probe.applied)
    => probe.out = IF probe.arg.message # "" THEN probe.arg.message
                   ELSE Filled(probe.arg.parts, probe.arg.vars, 1)

\* "Hi {#var#}, code {#var#}" with the values Sam and 123
C21_Witness ==
  /\ probe.op = "template" /\ probe.applied
  /\ probe.arg.message = ""
  /\ probe.arg.parts = <<"Hi ", ", code ", "">>
  /\ probe.arg.vars = <<"Sam", "123">>
  /\ probe.out = "Hi Sam, code 123"

(***************************************************************************)
(* The token cache file at the start of the process                        *)
(***************************************************************************)

\* the file holds something other than a record written by saveTokenToDisk
snapshotUnusable(d) == d \in StartupDisks \ { savedFile([token |-> <<1>>, expiry |-> 1]) }

\* a request was answered with the TypeError of reading a property of null
NullReadAnswered == \E r \in Reqs : response[r] = << ErrorResp("TypeError", NullRead) >>

\* C22: whatever unusable content the token cache file has at the start
\* (missing, unreadable, not JSON, JSON that is no credential record), the
\* process starts without a credential and no getAuthToken call fails on
\* it: the first call refreshes
C22_UnusableSnapshotMeansNoCredential ==
  /\ (snapshotUnusable(disk) /\ \A r \in Reqs : genCalls[r] = 0) =>
        /\ cachedToken # Null
        /\ cachedToken.token = << >>
  /\ ~NullReadAnswered

(***************************************************************************)
(* The token cache file across a restart                                   *)
(***************************************************************************)

\* the file holds what saveTokenToDisk wrote for the credential now cached
snapshotCurrent ==
  /\ cachedToken # Null
  /\ cachedToken.token # << >>
  /\ disk = savedFile(cachedToken)

\* C23: when the refresh that cached the credential also wrote it to the
\* file, a restart loads an equal credential (same token, same expiry), and
\* a getAuthToken call made after the restart and before that expiry gets
\* the token without a generate or an enable call
C23_RestartKeepsSavedCredential ==
  [][ /\ (boots' = boots + 1 /\ snapshotCurrent) => cachedToken' = cachedToken
      /\ \A r \in Reqs :
           (/\ boots > 0
            /\ snapshotCurrent
            /\ now < cachedToken.expiry
            /\ pc[r] = "idle" /\ pc'[r] = "auth")
           => /\ micro' = << BulkTask(r, TRUE, cachedToken.token, "") >>
              /\ genCalls' = genCalls
              /\ actCalls' = actCalls
              /\ tokenRefreshPromise' = tokenRefreshPromise ]_vars

\* a refresh wrote the file, the process restarted, and a request that came
\* in afterwards sends with the saved token without having refreshed
C23_Witness ==
  /\ boots = 1
  /\ diskWrites > 0
  /\ snapshotCurrent
  /\ \E r \in Reqs : /\ pc[r] = "sending"
                     /\ token[r] = cachedToken.token
                     /\ genCalls[r] = 0

(***************************************************************************)
(* A refresh whose snapshot could not be written                           *)
(***************************************************************************)

\* the messages of the errors the enable step throws
EnableErrors == {"Failed to enable token: 500 error", "fetch failed"}

\* C24: when the generate and the enable call succeeded and the write of
\* the file failed, the refresh is fulfilled all the same: cachedToken is
\* the new credential and every caller of the refresh is handed the new
\* token
C24_FailedWriteDoesNotFailRefresh ==
  [][ \A p \in Reqs :
        (/\ refresh[p].stage = "enable"
         /\ refresh'[p].stage # "enable"
         /\ boots' = boots
         /\ \A i \in 1..Len(micro') : micro'[i].err \notin EnableErrors
         /\ diskWrites' = diskWrites)
        => /\ refresh'[p].stage = "fulfilled"
           /\ cachedToken' = [token |-> refresh[p].token, expiry |-> now + CacheDays]
           /\ disk' = disk
           /\ Len(micro') = Len(refresh[p].reactions)
           /\ Len(micro') >= 1
           /\ \A i \in 1..Len(micro') :
                /\ micro'[i].kind = "auth"
                /\ micro'[i].promise = p
                /\ micro'[i].ok
                /\ micro'[i].val = refresh[p].token ]_vars

\* no write of the file has succeeded, and both the caller that started the
\* refresh and a caller that waited for it send with the new token
C24_Witness ==
  /\ diskWrites = 0
  /\ disk = << >>
  /\ cachedToken.token = << 2 >>
  /\ \A r \in {1, 2} : pc[r] = "sending" /\ token[r] = << 2 >> 
  /\ \E r \in {1, 2} : genCalls[r] = 0

(***************************************************************************)
(* One outcome per submitted recipient                                     *)
(***************************************************************************)

\* how many entries of a list of recipients or of outcomes carry the phone
CountOf(phone, list) == Cardinality({i \in 1..Len(list) : list[i].phone = phone})

\* C25: a bulk send that has issued a send call is answered with an outcome
\* list that holds every submitted recipient exactly as often as it was
\* submitted, whatever became of its batches, and the summary counts
\* total = number of submitted recipients = successful + failed
C25_OneOutcomePerRecipient ==
  \A r \in Reqs :
    (response[r] # << >> /\ sendCalls[r] > 0) =>
      LET submitted == body[r].recipients[1]
          answer == response[r][1]
      IN  /\ answer.status = 200
          /\ \A i \in 1..Len(submitted) :
               CountOf(submitted[i].phone, answer.results)
                 = CountOf(submitted[i].phone, submitted)
          /\ \A i \in 1..Len(answer.results) :
               CountOf(answer.results[i].phone, submitted) > 0
          /\ answer.summary.total = Len(submitted)
          /\ answer.summary.total = answer.summary.successful + answer.summary.failed
          /\ answer.summary.successful
               = Cardinality({i \in 1..Len(answer.results) : answer.results[i].success})

\* four recipients in three batches: the first batch was accepted for one
\* member only, the second threw, the third got a non-success status; the
\* answer counts 4 = 1 + 3
C25_Witness ==
  \E r \in Reqs :
    /\ response[r] # << >>
    /\ Len(sendLog[r]) = 3
    /\ sendLog[r][1].ok /\ ~sendLog[r][1].throws
    /\ sendLog[r][2].throws
    /\ ~sendLog[r][3].throws /\ ~sendLog[r][3].ok
    /\ response[r][1].summary = [total |-> 4, successful |-> 1, failed |-> 3]

(***************************************************************************)
(* The only assignment to cachedToken                                      *)
(***************************************************************************)

\* C26: while the process runs, cachedToken changes only in the step that
\* ends a refresh successfully, and there token and expiry are set together
\* to the token the gateway has just issued and the present time plus six
\* days; a cache hit, a waiting caller, a failed refresh, the send loop and
\* the token-status query leave it as it is
C26_CachedTokenSetOnlyBySuccessfulRefresh ==
  [][ cachedToken' # cachedToken =>
        \E p \in Reqs :
          /\ refresh[p].stage = "enable"
          /\ refresh'[p].stage = "fulfilled"
          /\ refresh[p].token = << issued >>
          /\ cachedToken' = [token |-> << issued >>, expiry |-> now + CacheDays] ]_vars

\* a credential loaded from the file was replaced by a refresh; the status
\* query has reported the new expiry and a request is sending
C26_Witness ==
  /\ diskWrites = 1
  /\ cachedToken = [token |-> << 2 >>, expiry |-> 1 + CacheDays]
  /\ tokenStatus # << >>
  /\ tokenStatus[1].status = 200
  /\ tokenStatus[1].expiresAt = << 1 + CacheDays >>
  /\ \E r \in Reqs : pc[r] = "sending"

(***************************************************************************)
(* The two calls of a refresh                                              *)
(***************************************************************************)

\* the token is in the cache, in the file, with a request or on its way to
\* one
TokenInUse(t) ==
  \/ cachedToken # Null /\ cachedToken.token = t
  \/ \E e \in 0..(MaxTime + CacheDays) : disk = savedFile([token |-> t, expiry |-> e])
  \/ \E r \in Reqs : token[r] = t
  \/ \E i \in 1..Len(micro) : micro[i].val = t

C28_ValidNumberGetsCountryCode ==
  (probe.op = "phone" /\ probe.applied /\ probe.out.valid)
    => /\ probe.out.wire = "91" \o StripNonDigits(probe.arg)
       /\ Len(probe.out.wire) = 12
       /\ AllDigits(probe.out.wire)

(***************************************************************************)
(* When a recipient is reported as sent                                    *)
(***************************************************************************)

\* C29: a member of a batch whose send call returned a success status is
\* reported as successful only if the response has an errorcode field and
\* the code for the member (at its position, or the first one when the
\* list is shorter) is "0"; without an errorcode field nobody is
\* reported as successful
C29_SuccessNeedsCodeZero ==
  (probe.op = "reconcile" /\ probe.applied)
    => \A i \in 1..Len(probe.out) :
         probe.out[i].success
           => /\ probe.arg.response.codes # << >>
              /\ MemberCode(probe.arg.response.codes[1], i) = "0"

(***************************************************************************)
(* Every request is answered                                               *)
(***************************************************************************)

\* C30: when every gateway call and every write returns or fails, a bulk
\* send that has come in is answered in the end, with a result body or an
\* error, and an answer once given is never followed by another; this
\* holds for the requests that waited on another request's refresh as
\* well, whether that refresh succeeded or failed
C30_EveryRequestAnswered ==
  /\ \A r \in Reqs : (pc[r] # "idle") ~> (pc[r] = "done" /\ Len(response[r]) = 1)
  /\ [][\A r \in Reqs : response[r] # << >> => response'[r] = response[r]]_vars

\* requests 1 and 2 are both answered; request 2 waited on the refresh of
\* request 1, whose generate call failed
C30_Witness ==
  /\ \A r \in {1, 2} : pc[r] = "done" /\ Len(response[r]) = 1
  /\ joined[2] = << 1 >>
  /\ refresh[1].stage = "rejected"
  /\ refresh[1].failedAt = "generate"
  /\ response[2][1].status # 400

====
